---- MODULE Spec2Model ----
(***************************************************************************)
(* Field metadata resolution (crates/milli/src/fields_ids_map/metadata.rs) *)
(* and the 1.13 -> 1.14 index upgrade step                                 *)
(* (crates/milli/src/update/upgrade/v1_14.rs).                             *)
(*                                                                         *)
(* A field name or a pattern is the sequence of its dot-separated          *)
(* segments: "a.b" is <<"a", "b">>, the wildcard "*" is <<"*">>.           *)
(* A rule sequence is a record [pad, tail]: `pad` leading copies of        *)
(* PadFilterableRule / PadLocalizedRule followed by the rules of `tail`,   *)
(* so that a Vec of 65536 rules stays a small value.                       *)
(***************************************************************************)
EXTENDS Integers, Sequences, FiniteSets, TLC

VARIABLES
    index,            \* the persisted settings MetadataBuilder::from_index reads
    builder,          \* the Result<MetadataBuilder> of from_index, or NotBuilt
    probe,            \* the last metadata_for_field call: [field, md]
    resolved,         \* the last resolution of probe.md against caller-supplied rules
    fields_ids_map,   \* FieldIdMapWithMetadata.fields_ids_map
    metadata,         \* FieldIdMapWithMetadata.metadata: FieldId -> Metadata
    last_insert,      \* the last insert call: [name, ret, classified, before]
    map_pc,           \* "none" before new(), "live", or "panicked": a call unwound
    version,          \* the index version record of the committed store
    vector_arroy,     \* the committed vector store: item -> on-disk format
    wtxn,             \* the open write transaction's view, or NoTxn
    pc,               \* position of the upgrade run
    ret,              \* what the upgrade step and the pipeline returned
    progress,         \* sub-phases reported to the progress sink
    original          \* the committed store when the pipeline started

vars == <<index, builder, probe, resolved, fields_ids_map, metadata, last_insert,
          map_pc, version, vector_arroy, wtxn, pc, ret, progress, original>>

classifyVars == <<index, builder, probe, resolved>>
mapVars == <<fields_ids_map, metadata, last_insert, map_pc>>
upgradeVars == <<version, vector_arroy, wtxn, pc, ret, progress, original>>

-----------------------------------------------------------------------------
(* Bounds of the model *)

MaxRules == 2        \* explicit rules in a rule sequence (after the padding)
MaxSearchable == 2   \* patterns in the user-defined searchable fields
MaxExisting == 1     \* fields already in the name/id table handed to new()
MaxVectors == 3      \* items in the vector store

(* NonZeroU16::MAX: the largest rule id a Metadata can hold *)
U16Max == 65535

(* FieldId = u16: the largest id the name/id table can allocate *)
MaxFieldId == 65535

-----------------------------------------------------------------------------
(* Option<T>, Result<T>, and a panic that unwinds out of the call *)

None == [some |-> FALSE]
Some(v) == [some |-> TRUE, val |-> v]
Ok(v) == [st |-> "ok", val |-> v]
Err == [st |-> "err"]
NotBuilt == [st |-> "none"]
Panic == [panic |-> TRUE]
Returns(v) == [panic |-> FALSE, val |-> v]

SeqsUpTo(S, n) == UNION {[1..k -> S] : k \in 0..n}

-----------------------------------------------------------------------------
(* The pattern matcher: crate::attribute_patterns and crate::is_faceted_by *)

FieldNames == {<<"a">>, <<"b">>, <<"a", "b">>}
Wildcard == <<"*">>

IsPrefix(p, s) == Len(p) <= Len(s) /\ SubSeq(s, 1, Len(p)) = p

(* is_faceted_by(field, facet): facet is the field or one of its ancestors *)
is_faceted_by(field, facet) == IsPrefix(facet, field)

(* match_pattern(pattern, str) -> PatternMatch *)
match_pattern(pattern, str) ==
    IF pattern = Wildcard THEN "Match"
    ELSE IF /\ pattern[Len(pattern)] = "*"
            /\ Len(str) >= Len(pattern)
            /\ IsPrefix(SubSeq(pattern, 1, Len(pattern) - 1), str) THEN "Match"
    ELSE IF pattern = str THEN "Match"
    ELSE IF is_faceted_by(pattern, str) THEN "Parent"
    ELSE "NoMatch"

(* FilterableAttributesFeatures *)
no_features == [filter |-> FALSE, facet_search |-> FALSE]
is_filterable(features) == features.filter
is_facet_searchable(features) == features.facet_search

(* FilterableAttributesRule::match_str, LocalizedAttributesRule::match_str *)
match_str(rule, field) == match_pattern(rule.pattern, field)

-----------------------------------------------------------------------------
(* Rule sequences *)

PadFilterableRule == [pattern |-> <<"z">>, features |-> no_features]
PadLocalizedRule == [pattern |-> <<"z">>, locales |-> {}]

RulesLen(rules) == rules.pad + Len(rules.tail)

(* <[_]>::get(i), i counted from 0 *)
RulesGet(rules, padRule, i) ==
    IF i < 0 \/ i >= RulesLen(rules) THEN None
    ELSE IF i < rules.pad THEN Some(padRule)
    ELSE Some(rules.tail[i - rules.pad + 1])

(* As TailPosition, with a rule that returns Parent selected too *)
RECURSIVE TailPositionNotNoMatch(_, _, _)
TailPositionNotNoMatch(tail, field, i) ==
    IF i > Len(tail) THEN None
    ELSE IF match_str(tail[i], field) # "NoMatch" THEN Some(i - 1)
    ELSE TailPositionNotNoMatch(tail, field, i + 1)

(* Iterator::position over the rules that return Match, counted from 0 *)
RECURSIVE TailPosition(_, _, _)
TailPosition(tail, field, i) ==
    IF i > Len(tail) THEN None
    ELSE IF match_str(tail[i], field) = "Match" THEN Some(i - 1)
    ELSE TailPosition(tail, field, i + 1)

MatchPosition(rules, padRule, field) ==
    IF rules.pad > 0 /\ match_str(padRule, field) = "Match" THEN Some(0)
    ELSE LET p == TailPosition(rules.tail, field, 1)
         IN IF p.some THEN Some(rules.pad + p.val) ELSE None

-----------------------------------------------------------------------------
(* Metadata *)

(* Option<NonZeroU16> is one u16: 0 is None *)
NoRuleId == 0

(* Metadata::locales *)
locales(md, rules) ==
    IF md.localized_attributes_rule_id = NoRuleId THEN None
    ELSE LET rule == RulesGet(rules, PadLocalizedRule, md.localized_attributes_rule_id - 1)
         IN IF rule.some THEN Some(rule.val.locales) ELSE Panic

(* As filterable_attributes, with an index past the end resolved to None *)
filterable_attributes_or_none(md, rules) ==
    IF md.filterable_attributes_rule_id = NoRuleId THEN None
    ELSE RulesGet(rules, PadFilterableRule, md.filterable_attributes_rule_id - 1)

(* Metadata::filterable_attributes *)
filterable_attributes(md, rules) ==
    IF md.filterable_attributes_rule_id = NoRuleId THEN None
    ELSE LET rule == RulesGet(rules, PadFilterableRule, md.filterable_attributes_rule_id - 1)
         IN IF rule.some THEN Some(rule.val) ELSE Panic

(* Metadata::filterable_attributes_features *)
filterable_attributes_features(md, rules) ==
    LET rule == filterable_attributes(md, rules)
    IN IF rule = Panic THEN Panic
       ELSE IF rule.some THEN rule.val.features
       ELSE no_features

(* As is_faceted, without the facet-search test *)
is_faceted_without_facet_search(md, rules) ==
    IF md.sortable THEN Returns(TRUE)
    ELSE LET features == filterable_attributes_features(md, rules)
         IN IF features = Panic THEN Panic
            ELSE IF is_filterable(features) THEN Returns(TRUE)
            ELSE Returns(FALSE)

(* Metadata::is_faceted *)
is_faceted(md, rules) ==
    IF md.sortable THEN Returns(TRUE)
    ELSE LET features == filterable_attributes_features(md, rules)
         IN IF features = Panic THEN Panic
            ELSE IF is_filterable(features) THEN Returns(TRUE)
            ELSE IF is_facet_searchable(features) THEN Returns(TRUE)
            ELSE Returns(FALSE)

-----------------------------------------------------------------------------
(* MetadataBuilder *)

(* As SeqContains, looking at the first element only *)
SeqStartsWith(s, x) == Len(s) > 0 /\ s[1] = x

(* <[_]>::contains *)
SeqContains(s, x) == \E i \in 1..Len(s) : s[i] = x

(* MetadataBuilder::from_index *)
from_index(idx) ==
    IF ~idx.storage_ok THEN Err
    ELSE Ok([searchable_attributes |->
                 IF idx.user_defined_searchable_fields.some
                    /\ SeqContains(idx.user_defined_searchable_fields.val, Wildcard)
                 THEN None
                 ELSE idx.user_defined_searchable_fields,
             filterable_attributes |-> idx.filterable_attributes_rules,
             sortable_attributes |-> idx.sortable_fields,
             localized_attributes |-> idx.localized_attributes_rules])

(* .map(|id| NonZeroU16::new(id.saturating_add(1).try_into().unwrap()).unwrap()) *)
RuleIdOverflows(position) == position.some /\ position.val + 1 > U16Max

RuleId(position) == IF position.some THEN position.val + 1 ELSE NoRuleId

(* MetadataBuilder::metadata_for_field *)
metadata_for_field(b, field) ==
    LET searchable ==
            IF b.searchable_attributes.some
            THEN \E i \in 1..Len(b.searchable_attributes.val) :
                     is_faceted_by(field, b.searchable_attributes.val[i])
            ELSE TRUE
        sortable == \E pattern \in b.sortable_attributes : is_faceted_by(field, pattern)
        localized_position ==
            IF b.localized_attributes.some
            THEN MatchPosition(b.localized_attributes.val, PadLocalizedRule, field)
            ELSE None
        localized_attributes_rule_id == RuleId(localized_position)
        filterable_position ==
            MatchPosition(b.filterable_attributes, PadFilterableRule, field)
        filterable_attributes_rule_id == RuleId(filterable_position)
    IN IF RuleIdOverflows(localized_position) \/ RuleIdOverflows(filterable_position)
       THEN Panic
       ELSE [searchable |-> searchable,
             sortable |-> sortable,
             localized_attributes_rule_id |-> localized_attributes_rule_id,
             filterable_attributes_rule_id |-> filterable_attributes_rule_id]

-----------------------------------------------------------------------------
(* FieldsIdsMap: the name/id table (super::FieldsIdsMap) *)

(* FieldsIdsMap::id *)
fields_ids_map_id(m, name) ==
    IF \E id \in DOMAIN m.ids_names : m.ids_names[id] = name
    THEN Some(CHOOSE id \in DOMAIN m.ids_names : m.ids_names[id] = name)
    ELSE None

(* FieldsIdsMap::insert: the id of a known name; else the next id, when one
   is left *)
fields_ids_map_insert(m, name) ==
    LET known == fields_ids_map_id(m, name)
    IN IF known.some THEN [map |-> m, ret |-> known]
       ELSE IF ~m.next_id.some THEN [map |-> m, ret |-> None]
       ELSE LET id == m.next_id.val
            IN [map |-> [ids_names |-> [i \in DOMAIN m.ids_names \cup {id} |->
                                            IF i = id THEN name ELSE m.ids_names[i]],
                         next_id |-> IF id + 1 > MaxFieldId THEN None ELSE Some(id + 1)],
                ret |-> Some(id)]

-----------------------------------------------------------------------------
(* FieldIdMapWithMetadata *)

(* BTreeMap::insert *)
MapInsert(m, k, v) == [i \in DOMAIN m \cup {k} |-> IF i = k THEN v ELSE m[i]]

(* As new, with every existing field given the default classification *)
new_unclassified(existing_fields_ids_map, b) ==
    [panic |-> FALSE,
     fields_ids_map |-> existing_fields_ids_map,
     metadata |-> [id \in DOMAIN existing_fields_ids_map.ids_names |->
                       [searchable |-> TRUE, sortable |-> FALSE,
                        localized_attributes_rule_id |-> NoRuleId,
                        filterable_attributes_rule_id |-> NoRuleId]]]

(* FieldIdMapWithMetadata::new *)
new(existing_fields_ids_map, b) ==
    LET names == existing_fields_ids_map.ids_names
    IN IF \E id \in DOMAIN names : metadata_for_field(b, names[id]) = Panic
       THEN Panic
       ELSE [panic |-> FALSE,
             fields_ids_map |-> existing_fields_ids_map,
             metadata |-> [id \in DOMAIN names |-> metadata_for_field(b, names[id])]]

(* As insert, with the metadata entry never written *)
insert_table_only(self, name) ==
    LET r == fields_ids_map_insert(self.fields_ids_map, name)
    IN [fields_ids_map |-> r.map, metadata |-> self.metadata,
        ret |-> r.ret, classified |-> FALSE]

(* As insert, with the field classified before an id is asked for *)
insert_classify_first(self, name) ==
    LET md == metadata_for_field(self.builder, name)
        r == fields_ids_map_insert(self.fields_ids_map, name)
    IN IF md = Panic
       THEN [fields_ids_map |-> self.fields_ids_map, metadata |-> self.metadata,
             ret |-> Panic, classified |-> TRUE]
       ELSE IF ~r.ret.some
       THEN [fields_ids_map |-> self.fields_ids_map, metadata |-> self.metadata,
             ret |-> None, classified |-> TRUE]
       ELSE [fields_ids_map |-> r.map,
             metadata |-> MapInsert(self.metadata, r.ret.val, md),
             ret |-> r.ret, classified |-> TRUE]

(* FieldIdMapWithMetadata::insert: the object's fields after the call, what it
   returned, and whether it called metadata_for_field *)
insert(self, name) ==
    LET r == fields_ids_map_insert(self.fields_ids_map, name)
    IN IF ~r.ret.some
       THEN [fields_ids_map |-> self.fields_ids_map, metadata |-> self.metadata,
             ret |-> None, classified |-> FALSE]
       ELSE LET md == metadata_for_field(self.builder, name)
            IN IF md = Panic
               THEN [fields_ids_map |-> r.map, metadata |-> self.metadata,
                     ret |-> Panic, classified |-> TRUE]
               ELSE [fields_ids_map |-> r.map,
                     metadata |-> MapInsert(self.metadata, r.ret.val, md),
                     ret |-> r.ret, classified |-> TRUE]

(* FieldIdMapWithMetadata::metadata *)
metadata_of(md_map, id) == IF id \in DOMAIN md_map THEN Some(md_map[id]) ELSE None

(* FieldIdMapWithMetadata::name *)
name_of(m, id) == IF id \in DOMAIN m.ids_names THEN Some(m.ids_names[id]) ELSE None

-----------------------------------------------------------------------------
(* The settings an index can hold *)

Features == [filter : BOOLEAN, facet_search : BOOLEAN]

FilterableRules ==
    {[pattern |-> <<"a", "b">>, features |-> [filter |-> TRUE, facet_search |-> TRUE]],
     [pattern |-> <<"a", "*">>, features |-> [filter |-> FALSE, facet_search |-> TRUE]],
     [pattern |-> <<"b">>, features |-> [filter |-> TRUE, facet_search |-> FALSE]],
     [pattern |-> Wildcard, features |-> no_features]}

LocalizedRules ==
    {[pattern |-> <<"a">>, locales |-> {"fra"}],
     [pattern |-> Wildcard, locales |-> {"eng"}]}

SearchablePatterns == {Wildcard, <<"a">>, <<"b">>}
SortablePatterns == {<<"a">>, <<"b">>}

(* How many rules precede the explicit ones: none, or enough to reach the
   end of the NonZeroU16 range *)
Pads == {0, U16Max - 1, U16Max}

RuleSeqs(R) == [pad : Pads, tail : SeqsUpTo(R, MaxRules)]
ShortRuleSeqs(R) == [pad : {0}, tail : SeqsUpTo(R, MaxRules)]

NoRules == [pad |-> 0, tail |-> <<>>]

RuleProfiles ==
    [storage_ok : BOOLEAN,
     user_defined_searchable_fields : {None},
     sortable_fields : {{}, {<<"a">>}},
     filterable_attributes_rules : RuleSeqs(FilterableRules),
     localized_attributes_rules :
         {None, Some([pad |-> 0, tail |-> <<[pattern |-> <<"a">>, locales |-> {"fra"}]>>])}]
    \cup
    [storage_ok : {TRUE},
     user_defined_searchable_fields : {None},
     sortable_fields : {{}},
     filterable_attributes_rules :
         {NoRules, [pad |-> 0, tail |-> <<[pattern |-> Wildcard, features |-> no_features]>>]},
     localized_attributes_rules : {Some(r) : r \in RuleSeqs(LocalizedRules)}]

SearchableProfiles ==
    [storage_ok : {TRUE},
     user_defined_searchable_fields :
         {None} \cup {Some(f) : f \in SeqsUpTo(SearchablePatterns, MaxSearchable)},
     sortable_fields : SUBSET SortablePatterns,
     filterable_attributes_rules :
         {NoRules, [pad |-> 0, tail |-> <<[pattern |-> <<"b">>,
                     features |-> [filter |-> TRUE, facet_search |-> FALSE]]>>]},
     localized_attributes_rules : {None}]

IndexSettings == RuleProfiles \cup SearchableProfiles

-----------------------------------------------------------------------------
(* Values of the variables an operation has not touched yet *)

NoCall == [kind |-> "none"]
EmptyFieldsIdsMap == [ids_names |-> <<>>, next_id |-> Some(0)]
NoTxn == [open |-> FALSE]
(* ret.failed: the call inside the step that failed, or "no"; ret.written: the
   items the vector store upgrade rewrote in the write transaction *)
NoRet == [step |-> NoCall, pipeline |-> NoCall, failed |-> "no", written |-> {}]

MapIdle ==
    /\ fields_ids_map = EmptyFieldsIdsMap
    /\ metadata = <<>>
    /\ last_insert = NoCall
    /\ map_pc = "none"

UpgradeIdle ==
    /\ version = <<1, 13, 0>>
    /\ vector_arroy = <<>>
    /\ wtxn = NoTxn
    /\ pc = "idle"
    /\ ret = NoRet
    /\ progress = <<>>
    /\ original = [version |-> <<1, 13, 0>>, vector_arroy |-> <<>>]

-----------------------------------------------------------------------------
(* Classification: from_index, metadata_for_field, and the Metadata accessors *)

InitClassify ==
    /\ index \in IndexSettings
    /\ builder = NotBuilt
    /\ probe = NoCall
    /\ resolved = NoCall
    /\ MapIdle
    /\ UpgradeIdle

FromIndex ==
    /\ builder = NotBuilt
    /\ builder' = from_index(index)
    /\ UNCHANGED <<index, probe, resolved>>
    /\ UNCHANGED mapVars
    /\ UNCHANGED upgradeVars

Classify(field) ==
    /\ builder.st = "ok"
    /\ resolved = NoCall
    /\ probe' = [kind |-> "classify", field |-> field,
                 md |-> metadata_for_field(builder.val, field)]
    /\ resolved' = NoCall
    /\ UNCHANGED <<index, builder>>
    /\ UNCHANGED mapVars
    /\ UNCHANGED upgradeVars

(* The rule sequences a caller may hand to the accessors: the builder's own,
   or any other one *)
SuppliedFilterable ==
    IF builder.st # "ok" THEN {}
    ELSE {builder.val.filterable_attributes} \cup ShortRuleSeqs(FilterableRules)
SuppliedLocalized ==
    IF builder.st # "ok" THEN {}
    ELSE (IF builder.val.localized_attributes.some
          THEN {builder.val.localized_attributes.val} ELSE {})
         \cup ShortRuleSeqs(LocalizedRules)

ResolveFilterable(rules) ==
    /\ probe.kind = "classify"
    /\ probe.md # Panic
    /\ resolved = NoCall
    /\ resolved' = [kind |-> "filterable", rules |-> rules,
                    rule |-> filterable_attributes(probe.md, rules),
                    features |-> filterable_attributes_features(probe.md, rules),
                    faceted |-> is_faceted(probe.md, rules)]
    /\ UNCHANGED <<index, builder, probe>>
    /\ UNCHANGED mapVars
    /\ UNCHANGED upgradeVars

ResolveLocalized(rules) ==
    /\ probe.kind = "classify"
    /\ probe.md # Panic
    /\ resolved = NoCall
    /\ resolved' = [kind |-> "localized", rules |-> rules,
                    locales |-> locales(probe.md, rules)]
    /\ UNCHANGED <<index, builder, probe>>
    /\ UNCHANGED mapVars
    /\ UNCHANGED upgradeVars

NextClassify ==
    \/ FromIndex
    \/ \E field \in FieldNames : Classify(field)
    \/ \E rules \in SuppliedFilterable : ResolveFilterable(rules)
    \/ \E rules \in SuppliedLocalized : ResolveLocalized(rules)

SpecClassify == InitClassify /\ [][NextClassify]_vars

-----------------------------------------------------------------------------
(* The field map: new and insert *)

MapSettings ==
    [storage_ok : {TRUE},
     user_defined_searchable_fields : {None, Some(<<<<"a">>>>)},
     sortable_fields : {{}, {<<"b">>}},
     filterable_attributes_rules :
         {NoRules,
          [pad |-> 0, tail |-> <<[pattern |-> <<"b">>,
                                  features |-> [filter |-> TRUE, facet_search |-> FALSE]]>>],
          [pad |-> U16Max, tail |-> <<[pattern |-> <<"a", "*">>,
                                       features |-> [filter |-> FALSE, facet_search |-> TRUE]]>>]},
     localized_attributes_rules : {None}]

(* The ids a persisted table may hold: the lowest and the highest of FieldId *)
ExistingIds == {0, 1, MaxFieldId - 1, MaxFieldId}

(* The name/id tables an index may hand to new(): some names, each under an id
   of its own, and the id after the highest as the next one *)
ExistingMaps ==
    {[ids_names |-> [id \in {f[n] : n \in DOMAIN f} |-> CHOOSE n \in DOMAIN f : f[n] = id],
      next_id |-> IF DOMAIN f = {} THEN Some(0)
                  ELSE LET top == CHOOSE i \in {f[n] : n \in DOMAIN f} :
                                      \A j \in {f[n] : n \in DOMAIN f} : j <= i
                       IN IF top + 1 > MaxFieldId THEN None ELSE Some(top + 1)] :
        f \in {g \in UNION {[S -> ExistingIds] :
                                S \in {T \in SUBSET FieldNames : Cardinality(T) <= MaxExisting}} :
                   \A x, y \in DOMAIN g : x # y => g[x] # g[y]}}

InitMap ==
    /\ index \in MapSettings
    /\ builder = NotBuilt
    /\ probe = NoCall
    /\ resolved = NoCall
    /\ MapIdle
    /\ UpgradeIdle

New(existing_fields_ids_map) ==
    /\ builder.st = "ok"
    /\ map_pc = "none"
    /\ LET self == new(existing_fields_ids_map, builder.val)
       IN IF self = Panic
          THEN /\ map_pc' = "panicked"
               /\ UNCHANGED <<fields_ids_map, metadata>>
          ELSE /\ map_pc' = "live"
               /\ fields_ids_map' = self.fields_ids_map
               /\ metadata' = self.metadata
    /\ UNCHANGED last_insert
    /\ UNCHANGED classifyVars
    /\ UNCHANGED upgradeVars

Insert(name) ==
    /\ map_pc = "live"
    /\ LET self == [fields_ids_map |-> fields_ids_map, builder |-> builder.val,
                    metadata |-> metadata]
           r == insert(self, name)
       IN /\ fields_ids_map' = r.fields_ids_map
          /\ metadata' = r.metadata
          /\ map_pc' = IF r.ret = Panic THEN "panicked" ELSE "live"
          /\ last_insert' = [kind |-> "insert", name |-> name, ret |-> r.ret,
                             classified |-> r.classified,
                             before |-> [fields_ids_map |-> fields_ids_map,
                                         metadata |-> metadata]]
    /\ UNCHANGED classifyVars
    /\ UNCHANGED upgradeVars

NextMap ==
    \/ FromIndex
    \/ \E existing \in ExistingMaps : New(existing)
    \/ \E name \in FieldNames : Insert(name)

SpecMap == InitMap /\ [][NextMap]_vars

-----------------------------------------------------------------------------
(* The upgrade step Latest_V1_13_To_Latest_V1_14 and the pipeline that runs it *)

(* Latest_V1_13_To_Latest_V1_14::target_version *)
target_version == <<1, 14, 0>>

VersionLess(a, b) ==
    \/ a[1] < b[1]
    \/ a[1] = b[1] /\ a[2] < b[2]
    \/ a[1] = b[1] /\ a[2] = b[2] /\ a[3] < b[3]

(* arroy::upgrade::cosine_from_0_5_to_0_6 on the write transaction: the items
   it rewrote before it returned, successfully or not *)
ArroyOutcomes(items) ==
    [ok : {FALSE}, converted : SUBSET items] \cup [ok : {TRUE}, converted : {items}]

cosine_from_0_5_to_0_6(txn, arroy) ==
    [txn EXCEPT !.vector_arroy =
        [i \in DOMAIN txn.vector_arroy |->
            IF i \in arroy.converted THEN "0.6" ELSE txn.vector_arroy[i]]]

(* As upgrade, with the result of the vector store upgrade dropped *)
upgrade_ignoring_errors(txn, read_txn_ok, arroy) ==
    [wtxn |-> IF read_txn_ok THEN cosine_from_0_5_to_0_6(txn, arroy) ELSE txn,
     ret |-> Ok(TRUE)]

(* Latest_V1_13_To_Latest_V1_14::upgrade: the write transaction after the
   call, and the Result<bool> returned *)
upgrade(txn, read_txn_ok, arroy) ==
    IF ~read_txn_ok THEN [wtxn |-> txn, ret |-> Err]
    ELSE IF ~arroy.ok THEN [wtxn |-> cosine_from_0_5_to_0_6(txn, arroy), ret |-> Err]
    ELSE [wtxn |-> cosine_from_0_5_to_0_6(txn, arroy), ret |-> Ok(TRUE)]

InitialVersions == {<<1, 13, 0>>, <<1, 13, 1>>, <<1, 14, 0>>}

InitUpgrade ==
    /\ version \in InitialVersions
    /\ \E n \in 0..MaxVectors :
           vector_arroy = [i \in 1..n |-> IF VersionLess(version, target_version)
                                          THEN "0.5" ELSE "0.6"]
    /\ original = [version |-> version, vector_arroy |-> vector_arroy]
    /\ wtxn = NoTxn
    /\ pc = "idle"
    /\ ret = NoRet
    /\ progress = <<>>
    /\ index \in {[storage_ok |-> TRUE, user_defined_searchable_fields |-> None,
                   sortable_fields |-> {}, filterable_attributes_rules |-> NoRules,
                   localized_attributes_rules |-> None]}
    /\ builder = NotBuilt
    /\ probe = NoCall
    /\ resolved = NoCall
    /\ MapIdle

(* The pipeline selects the step when the recorded version is below its
   target, and opens the step's write transaction; else it has nothing to do *)
Select ==
    /\ pc = "idle"
    /\ IF VersionLess(version, target_version)
       THEN /\ wtxn' = [open |-> TRUE, version |-> version, vector_arroy |-> vector_arroy]
            /\ pc' = "step"
            /\ UNCHANGED ret
       ELSE /\ pc' = "done"
            /\ ret' = [ret EXCEPT !.pipeline = Ok(FALSE)]
            /\ UNCHANGED wtxn
    /\ UNCHANGED <<version, vector_arroy, progress, original>>
    /\ UNCHANGED classifyVars
    /\ UNCHANGED mapVars

Upgrade(read_txn_ok, arroy) ==
    /\ pc = "step"
    /\ LET r == upgrade(wtxn, read_txn_ok, arroy)
       IN /\ wtxn' = r.wtxn
          /\ ret' = [ret EXCEPT !.step = r.ret,
                                 !.failed = IF ~read_txn_ok THEN "read_txn"
                                            ELSE IF ~arroy.ok THEN "cosine_from_0_5_to_0_6"
                                            ELSE "no",
                                 !.written = IF read_txn_ok THEN arroy.converted ELSE {}]
    /\ progress' = Append(progress, "UpdateInternalVersions")
    /\ pc' = "returned"
    /\ UNCHANGED <<version, vector_arroy, original>>
    /\ UNCHANGED classifyVars
    /\ UNCHANGED mapVars

(* On success the pipeline records the step's target and commits *)
Commit ==
    /\ pc = "returned"
    /\ ret.step.st = "ok"
    /\ version' = target_version
    /\ vector_arroy' = wtxn.vector_arroy
    /\ wtxn' = NoTxn
    /\ ret' = [ret EXCEPT !.pipeline = Ok(ret.step.val)]
    /\ pc' = "committed"
    /\ UNCHANGED <<progress, original>>
    /\ UNCHANGED classifyVars
    /\ UNCHANGED mapVars

(* On failure the pipeline drops the transaction and returns the error *)
Abort ==
    /\ pc = "returned"
    /\ ret.step.st = "err"
    /\ wtxn' = NoTxn
    /\ ret' = [ret EXCEPT !.pipeline = Err]
    /\ pc' = "aborted"
    /\ UNCHANGED <<version, vector_arroy, progress, original>>
    /\ UNCHANGED classifyVars
    /\ UNCHANGED mapVars

NextUpgrade ==
    \/ Select
    \/ \E read_txn_ok \in BOOLEAN, arroy \in ArroyOutcomes(DOMAIN vector_arroy) :
           Upgrade(read_txn_ok, arroy)
    \/ Commit
    \/ Abort

SpecUpgrade == InitUpgrade /\ [][NextUpgrade]_vars

-----------------------------------------------------------------------------
(* Properties of classification, under SpecClassify *)

(* The positions, counted from 0, of the rules of a sequence that return
   Match for a field *)
MatchingIndexes(rules, padRule, field) ==
    (IF rules.pad > 0 /\ match_str(padRule, field) = "Match"
     THEN 0..(rules.pad - 1) ELSE {})
    \cup {rules.pad + i - 1 : i \in {j \in 1..Len(rules.tail) :
                                         match_str(rules.tail[j], field) = "Match"}}

Lowest(S) == CHOOSE i \in S : \A j \in S : i <= j

Classified == probe.kind = "classify" /\ probe.md # Panic

BuilderLocalized ==
    IF builder.val.localized_attributes.some
    THEN builder.val.localized_attributes.val ELSE NoRules

(* C4: a filterable or localized rule sequence longer than a NonZeroU16 can
   index is rejected by from_index, so that metadata_for_field never fails on
   the length of a rule sequence. *)
C4_RejectedAtConstruction ==
    /\ builder.st = "ok" =>
           /\ RulesLen(index.filterable_attributes_rules) <= U16Max
           /\ index.localized_attributes_rules.some =>
                  RulesLen(index.localized_attributes_rules.val) <= U16Max
    /\ probe.kind = "classify" => probe.md # Panic

(* C5: the stored reference is present iff some rule returns Match, and
   resolving it against the builder's own sequence gives the lowest-indexed
   rule that returns Match, for the filterable and for the localized rules. *)
C5_FirstMatchWins ==
    Classified =>
        LET f == MatchingIndexes(builder.val.filterable_attributes, PadFilterableRule,
                                 probe.field)
            l == MatchingIndexes(BuilderLocalized, PadLocalizedRule, probe.field)
        IN /\ (probe.md.filterable_attributes_rule_id # NoRuleId) <=> (f # {})
           /\ f # {} =>
                  /\ probe.md.filterable_attributes_rule_id - 1 = Lowest(f)
                  /\ filterable_attributes(probe.md, builder.val.filterable_attributes)
                         = RulesGet(builder.val.filterable_attributes, PadFilterableRule,
                                    Lowest(f))
                  /\ match_str(filterable_attributes(probe.md,
                                   builder.val.filterable_attributes).val,
                               probe.field) = "Match"
           /\ (probe.md.localized_attributes_rule_id # NoRuleId) <=> (l # {})
           /\ l # {} =>
                  /\ probe.md.localized_attributes_rule_id - 1 = Lowest(l)
                  /\ locales(probe.md, BuilderLocalized)
                         = Some(RulesGet(BuilderLocalized, PadLocalizedRule,
                                         Lowest(l)).val.locales)

(* A field for which the first rule returns Parent and the second Match has
   been classified, and its reference resolved against the builder's rules. *)
C5_Witness ==
    /\ Classified
    /\ builder.val.filterable_attributes.pad = 0
    /\ Len(builder.val.filterable_attributes.tail) >= 2
    /\ match_str(builder.val.filterable_attributes.tail[1], probe.field) = "Parent"
    /\ match_str(builder.val.filterable_attributes.tail[2], probe.field) = "Match"
    /\ probe.md.filterable_attributes_rule_id = 2
    /\ resolved.kind = "filterable"
    /\ resolved.rules = builder.val.filterable_attributes
    /\ resolved.rule = Some(builder.val.filterable_attributes.tail[2])

(* C7 as stated, in its weakest reading: resolving a present reference
   against a sequence other than the builder's aborts, or at least returns
   nothing but the rule matched when the field was classified. *)
C7_MisuseNeverSilent ==
    /\ (/\ resolved.kind = "filterable"
        /\ probe.md.filterable_attributes_rule_id # NoRuleId
        /\ resolved.rules # builder.val.filterable_attributes)
       => \/ resolved.rule = Panic
          \/ resolved.rule = filterable_attributes(probe.md,
                                                   builder.val.filterable_attributes)
    /\ (/\ resolved.kind = "localized"
        /\ probe.md.localized_attributes_rule_id # NoRuleId
        /\ resolved.rules # BuilderLocalized)
       => \/ resolved.locales = Panic
          \/ resolved.locales = locales(probe.md, BuilderLocalized)

(* C7 amended: resolving a present reference aborts exactly when the supplied
   sequence is not longer than the referenced position; otherwise it returns
   the rule the supplied sequence holds at that position, whichever sequence
   the reference came from. *)
C7_AbortsOnlyWhenTooShort ==
    /\ (resolved.kind = "filterable" /\ probe.md.filterable_attributes_rule_id # NoRuleId) =>
           LET i == probe.md.filterable_attributes_rule_id - 1
           IN IF i >= RulesLen(resolved.rules)
              THEN resolved.rule = Panic /\ resolved.features = Panic
              ELSE /\ resolved.rule = RulesGet(resolved.rules, PadFilterableRule, i)
                   /\ resolved.rule.some
    /\ (resolved.kind = "localized" /\ probe.md.localized_attributes_rule_id # NoRuleId) =>
           LET i == probe.md.localized_attributes_rule_id - 1
           IN IF i >= RulesLen(resolved.rules)
              THEN resolved.locales = Panic
              ELSE resolved.locales
                       = Some(RulesGet(resolved.rules, PadLocalizedRule, i).val.locales)

(* A reference has been resolved against a sequence too short for it. *)
C7_Witness ==
    /\ resolved.kind = "filterable"
    /\ probe.md.filterable_attributes_rule_id > RulesLen(resolved.rules)
    /\ resolved.rule = Panic

(* C8: with "*" anywhere among the user-defined searchable fields the builder
   keeps no searchable collection and every field is searchable, exactly as
   when none are configured; without "*", a field is searchable iff some
   pattern faceting-matches it. *)
C8_WildcardCollapse ==
    LET fields == index.user_defined_searchable_fields
        star == fields.some /\ \E i \in 1..Len(fields.val) : fields.val[i] = Wildcard
    IN /\ builder.st = "ok" =>
              /\ star => builder.val.searchable_attributes = None
              /\ ~star => builder.val.searchable_attributes = fields
       /\ Classified =>
              /\ (star \/ ~fields.some) => probe.md.searchable
              /\ star => probe.md = metadata_for_field(
                             from_index([index EXCEPT
                                 !.user_defined_searchable_fields = None]).val,
                             probe.field)
              /\ (fields.some /\ ~star) =>
                     (probe.md.searchable <=>
                          \E i \in 1..Len(fields.val) :
                              is_faceted_by(probe.field, fields.val[i]))

(* "*" is configured after another pattern that does not cover the field,
   and the field has been classified. *)
C8_Witness ==
    /\ Classified
    /\ index.user_defined_searchable_fields.some
    /\ Len(index.user_defined_searchable_fields.val) >= 2
    /\ index.user_defined_searchable_fields.val[1] # Wildcard
    /\ ~is_faceted_by(probe.field, index.user_defined_searchable_fields.val[1])
    /\ index.user_defined_searchable_fields.val[2] = Wildcard
    /\ probe.md.searchable

(* C9: without a filterable reference the features are the all-disabled value
   for any rule sequence and is_faceted is sortable; in general is_faceted is
   sortable, or the resolved rule's features are filterable or
   facet-searchable. *)
C9_NoFeaturesByDefault ==
    resolved.kind = "filterable" =>
        /\ probe.md.filterable_attributes_rule_id = NoRuleId =>
               /\ resolved.features = no_features
               /\ resolved.faceted = Returns(probe.md.sortable)
        /\ resolved.faceted # Panic =>
               (resolved.faceted.val <=>
                    \/ probe.md.sortable
                    \/ /\ resolved.rule # Panic
                       /\ resolved.rule.some
                       /\ \/ resolved.rule.val.features.filter
                          \/ resolved.rule.val.features.facet_search)
        /\ resolved.faceted = Panic => (~probe.md.sortable /\ resolved.rule = Panic)

(* A sortable field that no filterable rule matches has been resolved against
   a sequence whose rules enable features. *)
C9_Witness ==
    /\ resolved.kind = "filterable"
    /\ probe.md.filterable_attributes_rule_id = NoRuleId
    /\ probe.md.sortable
    /\ Len(resolved.rules.tail) > 0
    /\ resolved.rules.tail[1].features.filter
    /\ resolved.faceted = Returns(TRUE)
    /\ resolved.features = no_features

-----------------------------------------------------------------------------
(* Properties of the field map, under SpecMap.  A state of the map is one
   that new() and insert calls that returned have produced: map_pc = "live". *)

TableIds == DOMAIN fields_ids_map.ids_names
Inserted == map_pc = "live" /\ last_insert.kind = "insert"

(* C1: after new() and any insert calls, the ids of the name/id table are the
   keys of the metadata map, the two counts are equal, and every id insert
   returned has a Metadata. *)
C1_Sync ==
    map_pc = "live" =>
        /\ TableIds = DOMAIN metadata
        /\ Cardinality(TableIds) = Cardinality(DOMAIN metadata)
        /\ (last_insert.kind = "insert" /\ last_insert.ret.some) =>
               metadata_of(metadata, last_insert.ret.val).some

(* A table that held a field already has been given a new one by insert. *)
C1_Witness ==
    /\ Inserted
    /\ last_insert.ret.some
    /\ last_insert.before.metadata # <<>>
    /\ last_insert.ret.val \notin DOMAIN last_insert.before.metadata
    /\ Cardinality(DOMAIN metadata) >= 2

(* C6: insert returns None exactly when the name is unknown and the table has
   no id left; it then classifies nothing and leaves the table and the
   metadata map as they were. *)
C6_Exhausted ==
    last_insert.kind = "insert" =>
        /\ (last_insert.ret = None) <=>
               /\ ~last_insert.before.fields_ids_map.next_id.some
               /\ ~fields_ids_map_id(last_insert.before.fields_ids_map, last_insert.name).some
        /\ last_insert.ret = None =>
               /\ ~last_insert.classified
               /\ fields_ids_map = last_insert.before.fields_ids_map
               /\ metadata = last_insert.before.metadata

(* insert has been refused on a table whose last id, MaxFieldId, is taken. *)
C6_Witness ==
    /\ Inserted
    /\ last_insert.ret = None
    /\ MaxFieldId \in TableIds
    /\ last_insert.name \notin {fields_ids_map.ids_names[id] : id \in TableIds}

(* C10: every stored Metadata is the builder's classification of the id's
   name; an insert changes neither the Metadata nor the name of an id that had
   one, and for a known name returns its id and adds no entry. *)
C10_Stable ==
    map_pc = "live" =>
        /\ \A id \in DOMAIN metadata :
               /\ name_of(fields_ids_map, id).some
               /\ metadata[id] = metadata_for_field(builder.val,
                                                    name_of(fields_ids_map, id).val)
        /\ last_insert.kind = "insert" =>
               LET before == last_insert.before
                   known == fields_ids_map_id(before.fields_ids_map, last_insert.name)
               IN /\ \A id \in DOMAIN before.metadata :
                         /\ metadata_of(metadata, id) = Some(before.metadata[id])
                         /\ name_of(fields_ids_map, id) = name_of(before.fields_ids_map, id)
                  /\ known.some =>
                         /\ last_insert.ret = known
                         /\ DOMAIN metadata = DOMAIN before.metadata
                         /\ fields_ids_map = before.fields_ids_map

(* A known name has been inserted again into a map of two fields whose
   classifications differ. *)
C10_Witness ==
    /\ Inserted
    /\ fields_ids_map_id(last_insert.before.fields_ids_map, last_insert.name).some
    /\ \E i, j \in DOMAIN metadata : metadata[i] # metadata[j]

-----------------------------------------------------------------------------
(* Properties of the upgrade, under SpecUpgrade *)

(* C2: when the step fails, opening the read transaction or inside the vector
   store upgrade, the error reaches the caller, the step's write transaction
   is not committed, and the version record and the store stay as they were
   before the step. *)
C2_Atomic ==
    (pc \in {"returned", "committed", "aborted"} /\ ret.failed # "no") =>
        /\ ret.step = Err
        /\ pc # "committed"
        /\ version = original.version
        /\ vector_arroy = original.vector_arroy
        /\ pc = "aborted" => (ret.pipeline = Err /\ wtxn = NoTxn)

(* The vector store upgrade failed after rewriting an item, and the pipeline
   has dropped the transaction. *)
C2_Witness ==
    /\ pc = "aborted"
    /\ ret.failed = "cosine_from_0_5_to_0_6"
    /\ ret.written # {}
    /\ ret.pipeline = Err
    /\ version = <<1, 13, 0>>

(* C3: a store recorded at (1,13,0) that the step upgrades successfully is
   recorded at (1,14,0), and the step's needs-reindex signal, which the
   pipeline returns, is false. *)
C3_NoReindex ==
    (pc = "committed" /\ original.version = <<1, 13, 0>>) =>
        /\ version = <<1, 14, 0>>
        /\ ret.step = Ok(FALSE)
        /\ ret.pipeline = ret.step

====
